---- MODULE Spec2Model ----
(***************************************************************************)
(* Little Library: a browser front end (list page, detail page, add page)  *)
(* over an express server that keeps the whole library in books.json.      *)
(*                                                                         *)
(* Strings the code inspects (titles, queries, URL parameters) are         *)
(* sequences of one-character strings, so that trim, toLowerCase,          *)
(* includes, split and the number/string conversions are computed.         *)
(* Every handler is cut at its awaits: one action per stretch of code      *)
(* that runs without yielding.  The server's route handlers are            *)
(* synchronous and are one action each.                                    *)
(***************************************************************************)
EXTENDS Integers, Sequences, FiniteSets, TLC

\* ------------------------------------------------------------- bounds
\* Date.now() at the first step, and how many times the clock may advance.
FirstNow == 9
MaxTicks == 1
\* Create is offered while the stored collection is shorter than this.
MaxBooks == 3
\* How many handlers (status update, delete, create, list-page events) are started.
MaxRuns == 2

\* ------------------------------------------------------------ strings
Digits == <<"0", "1", "2", "3", "4", "5", "6", "7", "8", "9">>

IsDigit(c) == \E i \in 1..10 : Digits[i] = c

DigitVal(c) == (CHOOSE i \in 1..10 : Digits[i] = c) - 1

IsSpace(c) == c = " "

RECURSIVE TrimStart(_)
TrimStart(s) ==
    IF s # <<>> /\ IsSpace(Head(s)) THEN TrimStart(Tail(s)) ELSE s

RECURSIVE TrimEnd(_)
TrimEnd(s) ==
    IF s # <<>> /\ IsSpace(s[Len(s)]) THEN TrimEnd(SubSeq(s, 1, Len(s) - 1)) ELSE s

\* String.prototype.trim
Trim(s) == TrimEnd(TrimStart(s))

\* String.prototype.toLowerCase on the alphabet the model uses
LowerChar(c) ==
    CASE c = "D" -> "d"
      [] c = "E" -> "e"
      [] c = "H" -> "h"
      [] c = "N" -> "n"
      [] c = "U" -> "u"
      [] OTHER -> c

ToLowerCase(s) == [i \in 1..Len(s) |-> LowerChar(s[i])]

\* String.prototype.includes
Includes(s, t) ==
    \E i \in 0..(Len(s) - Len(t)) : SubSeq(s, i + 1, i + Len(t)) = t

\* String(n) for a non-negative integer
RECURSIVE NumToStr(_)
NumToStr(n) ==
    IF n < 10 THEN <<Digits[n + 1]>>
    ELSE NumToStr(n \div 10) \o <<Digits[(n % 10) + 1]>>

\* Number(s) of a string: blanks are trimmed, a decimal numeral has its value
\* (the blank string 0), anything else is NaN
IsNumeral(s) == \A i \in 1..Len(s) : IsDigit(s[i])

RECURSIVE DecValue(_)
DecValue(s) ==
    IF s = <<>> THEN 0 ELSE 10 * DecValue(SubSeq(s, 1, Len(s) - 1)) + DigitVal(s[Len(s)])

\* number == string: the string is converted with Number(); NaN equals nothing
LooseEq(n, s) == IsNumeral(Trim(s)) /\ DecValue(Trim(s)) = n

\* String.prototype.split(',')
RECURSIVE SplitComma(_, _)
SplitComma(s, cur) ==
    IF s = <<>> THEN <<cur>>
    ELSE IF Head(s) = "," THEN <<cur>> \o SplitComma(Tail(s), <<>>)
    ELSE SplitComma(Tail(s), Append(cur, Head(s)))

RECURSIVE MapTrim(_)
MapTrim(ss) == IF ss = <<>> THEN <<>> ELSE <<Trim(Head(ss))>> \o MapTrim(Tail(ss))

\* formData.get('tags').split(',').map(tag => tag.trim()).filter(tag => tag)
ParseTags(raw) == SelectSeq(MapTrim(SplitComma(raw, <<>>)), LAMBDA t : t # <<>>)

\* -------------------------------------------------------------- books
Book(id, title, author, tags, status, dateAdded) ==
    [id |-> id, title |-> title, author |-> author, tags |-> tags,
     status |-> status, dateAdded |-> dateAdded]

\* Entries of the stored library before any session acts.
BookDune == Book(7, <<"D", "u">>, <<"H", "e">>, << <<"s", "f">> >>, "reading", 7)
BookEmma == Book(8, <<"E", "d">>, <<>>, <<>>, "read", 8)
\* an entry without a title, as the list page's validity filter expects
BookBlank == Book(6, <<" ">>, <<"u">>, <<>>, "read", 6)

\* --------------------------------------------------- library document
Doc(library, lastUpdated, totalBooks, hasBooks, bks) ==
    [library |-> library, lastUpdated |-> lastUpdated, totalBooks |-> totalBooks,
     hasBooks |-> hasBooks, books |-> bks]

\* a JSON object without any of the document's fields: {}
EmptyObject == Doc("", -1, -1, FALSE, <<>>)

\* the object the GET route sends when the file cannot be read: { books: [] }
EmptyBooksObject == Doc("", -1, -1, TRUE, <<>>)

LibraryDoc(bks, stamp) == Doc("Little Library", stamp, Len(bks), TRUE, bks)

\* books.json: absent, or text that JSON.parse accepts (json) or rejects (corrupt)
FileAbsent == [kind |-> "absent", doc |-> EmptyObject]
FileCorrupt == [kind |-> "corrupt", doc |-> EmptyObject]
FileJson(doc) == [kind |-> "json", doc |-> doc]

\* The books held by the stored document (none when there is no readable document).
StoredBooks(f) == IF f.kind = "json" /\ f.doc.hasBooks THEN f.doc.books ELSE <<>>

\* books.json before any session acts
InitFiles ==
    { FileAbsent, FileCorrupt, FileJson(EmptyObject),
      FileJson(LibraryDoc(<<BookDune, BookEmma>>, 8)),
      FileJson(LibraryDoc(<<BookBlank, BookDune>>, 8)) }

\* the files the detail and add pages start from
InitFilesPages ==
    { FileCorrupt, FileJson(EmptyObject), FileJson(LibraryDoc(<<BookDune, BookEmma>>, 8)) }

\* ------------------------------------------------------------ state
Sessions == {"S1", "S2"}
\* callers of fetch: the detail/add page sessions and the list page's two handlers
Chans == Sessions \cup {"Li", "Lf"}

VARIABLES
    file,    \* books.json on the server
    clock,   \* Date.now()
    runs,    \* how many handlers have been started
    net,     \* per caller: the fetch in flight
    pc,      \* per session: where its handler is suspended
    arg,     \* per session: the handler's inputs (URL parameter, dropdown, form)
    loc,     \* per session: the handler's local variables
    ui,      \* per session: what the user was shown
    books,   \* list page: the global books array
    grid,    \* list page: the rendered bookshelf table
    query,   \* list page: the text in the search box
    lst      \* list page: its handlers' positions and locals

vars == <<file, clock, runs, net, pc, arg, loc, ui, books, grid, query, lst>>
ctlVars == <<pc, arg, loc, ui>>
listVars == <<books, grid, query, lst>>

IdleNet ==
    [stage |-> "idle", method |-> "", body |-> EmptyObject, status |-> 0,
     rbody |-> EmptyObject]

NoParam == [present |-> FALSE, value |-> <<>>]
Param(v) == [present |-> TRUE, value |-> v]

NoForm == [title |-> <<>>, author |-> <<>>, tags |-> <<>>, status |-> ""]
\* a handler's inputs; before is a history field: what was stored when the add form
\* was submitted
NoArg ==
    [handler |-> "", bookId |-> NoParam, newStatus |-> "", form |-> NoForm, now |-> 0,
     before |-> <<>>]

NoBook == Book(0, <<>>, <<>>, <<>>, "", 0)
NoResult == [done |-> FALSE, threw |-> FALSE, caught |-> FALSE, value |-> <<>>]
NoSave == [done |-> FALSE, threw |-> FALSE, value |-> FALSE, accepted |-> FALSE]
NoLoc == [load |-> NoResult, sent |-> <<>>, book |-> NoBook, save |-> NoSave]

\* what the page has shown and done: the last alert, the confirm dialog's text and
\* the user's answer to it, the page navigated to, form.reset(), the focused field
NoUi ==
    [alert |-> <<>>, confirm |-> <<>>, answer |-> "", nav |-> "", formReset |-> FALSE,
     focus |-> ""]

\* ----------------------------------------------------------- server
\* app.get('/books'): the parsed file, or { books: [] } when reading or parsing throws
GetBooksRoute(f) == IF f.kind = "json" THEN f.doc ELSE EmptyBooksObject

\* app.post('/books') answering without having written the file
PostBooksRouteNoWrite(f, body, writeOk) ==
    [file |-> f, status |-> IF writeOk THEN 200 ELSE 500]

\* app.post('/books'): writes the request body as the file; 500 when the write throws
PostBooksRoute(f, body, writeOk) ==
    IF writeOk THEN [file |-> FileJson(body), status |-> 200]
    ELSE [file |-> f, status |-> 500]

\* app.get('/books') answering 404 when the file cannot be read or parsed
ServerGetNotFound(c) ==
    /\ net[c].stage = "sent"
    /\ net[c].method = "GET"
    /\ net' = [net EXCEPT ![c] = [@ EXCEPT !.stage = "answered",
                                            !.status = IF file.kind = "json" THEN 200 ELSE 404,
                                            !.rbody = IF file.kind = "json" THEN file.doc
                                                      ELSE EmptyObject]]
    /\ UNCHANGED <<file, clock, runs, ctlVars, listVars>>

ServerGet(c) ==
    /\ net[c].stage = "sent"
    /\ net[c].method = "GET"
    /\ net' = [net EXCEPT ![c] = [@ EXCEPT !.stage = "answered", !.status = 200,
                                            !.rbody = GetBooksRoute(file)]]
    /\ UNCHANGED <<file, clock, runs, ctlVars, listVars>>

ServerPost(c, writeOk) ==
    /\ net[c].stage = "sent"
    /\ net[c].method = "POST"
    /\ LET r == PostBooksRoute(file, net[c].body, writeOk) IN
        /\ file' = r.file
        /\ net' = [net EXCEPT ![c] = [@ EXCEPT !.stage = "answered", !.status = r.status]]
    /\ UNCHANGED <<clock, runs, ctlVars, listVars>>

\* Date.now() advances
Tick ==
    /\ clock < FirstNow + MaxTicks
    /\ clock' = clock + 1
    /\ UNCHANGED <<file, runs, net, ctlVars, listVars>>

\* ------------------------------------------------- persistence client
\* How an awaited fetch can end: the promise rejects (at any time after the request
\* was issued), or the response arrives; a GET response's body may fail to parse.
Outcomes(c) ==
    IF net[c].stage = "answered"
    THEN IF net[c].method = "GET" THEN {"reject", "nonjson", "response"}
         ELSE {"reject", "response"}
    ELSE IF net[c].stage = "sent" THEN {"reject"} ELSE {}

GetRequest == [IdleNet EXCEPT !.stage = "sent", !.method = "GET"]
PostRequest(body) == [IdleNet EXCEPT !.stage = "sent", !.method = "POST", !.body = body]

\* loadBooks without its try/catch: a rejected fetch or an unparsable body propagates
loadBooksNoCatch(outcome, rbody) ==
    [done |-> TRUE, threw |-> outcome # "response", caught |-> outcome # "response",
     value |-> IF outcome = "response" /\ rbody.hasBooks THEN rbody.books ELSE <<>>]

\* loadBooks: data.books || [], and [] from the catch block
loadBooks(outcome, rbody) ==
    [done |-> TRUE, threw |-> FALSE, caught |-> outcome # "response",
     value |-> IF outcome = "response" /\ rbody.hasBooks THEN rbody.books ELSE <<>>]

\* dataToSave with the count taken as the last index
dataToSaveLastIndex(bks, now) == Doc("Little Library", now, Len(bks) - 1, TRUE, bks)

\* saveBooks, up to the fetch: the document it transmits
dataToSave(bks, now) == Doc("Little Library", now, Len(bks), TRUE, bks)

\* saveBooks, after the fetch: response.ok, and false from the catch block
saveBooks(outcome, status) ==
    [done |-> TRUE, threw |-> FALSE,
     value |-> (outcome = "response" /\ status >= 200 /\ status <= 299)]

\* the server had written this request's document when the fetch ended
Accepted(n) == n.stage = "answered" /\ n.method = "POST" /\ n.status = 200

SaveResult(c, o) ==
    LET r == saveBooks(o, net[c].status) IN
    [done |-> r.done, threw |-> r.threw, value |-> r.value,
     accepted |-> Accepted(net[c])]

\* !bookId for the value URLSearchParams.get returns (null or a string)
Falsy(param) == ~param.present \/ param.value = <<>>

\* books.findIndex(b => b.id == bookId), 1-based; 0 stands for -1
findIndex(bks, bookId) ==
    IF \E i \in 1..Len(bks) : LooseEq(bks[i].id, bookId.value)
    THEN CHOOSE i \in 1..Len(bks) :
            /\ LooseEq(bks[i].id, bookId.value)
            /\ \A j \in 1..(i - 1) : ~LooseEq(bks[j].id, bookId.value)
    ELSE 0

Alert(text) == <<text>>
Quoted(title, rest) == <<"\"">> \o title \o <<rest>>

StartHandler(s, a) ==
    /\ pc[s] = "idle"
    /\ runs < MaxRuns
    /\ runs' = runs + 1
    /\ arg' = [arg EXCEPT ![s] = a]
    /\ loc' = [loc EXCEPT ![s] = NoLoc]

Finish(s, msg) ==
    /\ pc' = [pc EXCEPT ![s] = "idle"]
    /\ ui' = [ui EXCEPT ![s] = [@ EXCEPT !.alert = msg]]

\* ------------------------------------------------ detail page: status
\* updateStatus without the return after "Book not found"
updateStatusLoadedNoReturn(bks, bookId, newStatus) ==
    LET bookIndex == findIndex(bks, bookId) IN
    IF bookIndex = 0
    THEN [save |-> TRUE, books |-> bks, alert |-> Alert("Book not found")]
    ELSE [save |-> TRUE, books |-> [bks EXCEPT ![bookIndex].status = newStatus],
          alert |-> <<>>]

\* updateStatus between loadBooks and saveBooks: locate the book, set its status
updateStatusLoaded(bks, bookId, newStatus) ==
    LET bookIndex == findIndex(bks, bookId) IN
    IF bookIndex = 0
    THEN [save |-> FALSE, books |-> bks, alert |-> Alert("Book not found")]
    ELSE [save |-> TRUE, books |-> [bks EXCEPT ![bookIndex].status = newStatus],
          alert |-> <<>>]

UpdateStatusStart(s, bookId, newStatus) ==
    /\ StartHandler(s, [NoArg EXCEPT !.handler = "updateStatus", !.bookId = bookId,
                                     !.newStatus = newStatus])
    /\ IF Falsy(bookId)
       THEN /\ ui' = [ui EXCEPT ![s] = [NoUi EXCEPT !.alert = Alert("No book selected")]]
            /\ UNCHANGED <<pc, net>>
       ELSE /\ ui' = [ui EXCEPT ![s] = NoUi]
            /\ pc' = [pc EXCEPT ![s] = "us_load"]
            /\ net' = [net EXCEPT ![s] = GetRequest]
    /\ UNCHANGED <<file, clock, listVars>>

UpdateStatusLoaded(s, o) ==
    /\ pc[s] = "us_load"
    /\ o \in Outcomes(s)
    /\ LET r == loadBooks(o, net[s].rbody)
           step == updateStatusLoaded(r.value, arg[s].bookId, arg[s].newStatus)
       IN
        /\ IF r.threw
           THEN /\ Finish(s, Alert("Error updating status. Please try again."))
                /\ net' = [net EXCEPT ![s] = IdleNet]
                /\ loc' = [loc EXCEPT ![s] = [@ EXCEPT !.load = r]]
           ELSE IF ~step.save
           THEN /\ Finish(s, step.alert)
                /\ net' = [net EXCEPT ![s] = IdleNet]
                /\ loc' = [loc EXCEPT ![s] = [@ EXCEPT !.load = r]]
           ELSE /\ pc' = [pc EXCEPT ![s] = "us_save"]
                /\ net' = [net EXCEPT ![s] = PostRequest(dataToSave(step.books, clock))]
                /\ loc' = [loc EXCEPT ![s] = [@ EXCEPT !.load = r,
                                                        !.sent = step.books]]
                /\ UNCHANGED ui
    /\ UNCHANGED <<file, clock, runs, arg, listVars>>

UpdateStatusSaved(s, o) ==
    /\ pc[s] = "us_save"
    /\ o \in Outcomes(s)
    /\ LET success == SaveResult(s, o) IN
        /\ loc' = [loc EXCEPT ![s] = [@ EXCEPT !.save = success]]
        /\ IF ~success.threw /\ success.value
           THEN Finish(s, <<"Status updated to: ", arg[s].newStatus>>)
           ELSE Finish(s, Alert("Error updating status. Please try again."))
    /\ net' = [net EXCEPT ![s] = IdleNet]
    /\ UNCHANGED <<file, clock, runs, arg, listVars>>

\* ------------------------------------------------ detail page: delete
\* books.find(b => b.id == bookId); found says whether it returned a book
find(bks, bookId) ==
    LET i == findIndex(bks, bookId) IN
    IF i = 0 THEN [found |-> FALSE, book |-> NoBook] ELSE [found |-> TRUE, book |-> bks[i]]

\* number !== string: always true, the operands differ in type
StrictNe(n, str) == TRUE

\* books.filter(b => b.id !== bookId)
deleteBookFilterStrict(bks, bookId) ==
    SelectSeq(bks, LAMBDA b : StrictNe(b.id, bookId.value))

\* books.filter(b => b.id != bookId)
deleteBookFilter(bks, bookId) ==
    SelectSeq(bks, LAMBDA b : ~LooseEq(b.id, bookId.value))

DeleteStart(s, bookId) ==
    /\ StartHandler(s, [NoArg EXCEPT !.handler = "deleteBook", !.bookId = bookId])
    /\ IF Falsy(bookId)
       THEN /\ ui' = [ui EXCEPT ![s] = [NoUi EXCEPT !.alert = Alert("No book selected")]]
            /\ UNCHANGED <<pc, net>>
       ELSE /\ ui' = [ui EXCEPT ![s] = NoUi]
            /\ pc' = [pc EXCEPT ![s] = "del_load"]
            /\ net' = [net EXCEPT ![s] = GetRequest]
    /\ UNCHANGED <<file, clock, listVars>>

\* from the load's return to the confirm dialog
DeleteLoaded(s, o) ==
    /\ pc[s] = "del_load"
    /\ o \in Outcomes(s)
    /\ LET r == loadBooks(o, net[s].rbody)
           hit == find(r.value, arg[s].bookId)
       IN
        /\ loc' = [loc EXCEPT ![s] = [@ EXCEPT !.load = r,
                                                !.book = hit.book]]
        /\ IF r.threw
           THEN Finish(s, Alert("Error deleting book. Please try again."))
           ELSE IF ~hit.found
           THEN Finish(s, Alert("Book not found"))
           ELSE /\ pc' = [pc EXCEPT ![s] = "del_confirm"]
                /\ ui' = [ui EXCEPT ![s] = [@ EXCEPT !.confirm =
                            <<"Are you sure you want to delete \"">> \o hit.book.title
                            \o <<"\"? This action cannot be undone.">>]]
    /\ net' = [net EXCEPT ![s] = IdleNet]
    /\ UNCHANGED <<file, clock, runs, arg, listVars>>

\* the dialog's answer not looked at: the delete goes on after a cancel too
DeleteConfirmIgnored(s, confirmDelete) ==
    /\ pc[s] = "del_confirm"
    /\ LET updatedBooks == deleteBookFilter(loc[s].load.value, arg[s].bookId) IN
        /\ pc' = [pc EXCEPT ![s] = "del_save"]
        /\ net' = [net EXCEPT ![s] = PostRequest(dataToSave(updatedBooks, clock))]
        /\ loc' = [loc EXCEPT ![s] = [@ EXCEPT !.sent = updatedBooks]]
    /\ ui' = [ui EXCEPT ![s] = [@ EXCEPT !.answer = IF confirmDelete THEN "ok" ELSE "cancel"]]
    /\ UNCHANGED <<file, clock, runs, arg, listVars>>

\* the user answers the confirm dialog
DeleteConfirm(s, confirmDelete) ==
    /\ pc[s] = "del_confirm"
    /\ IF confirmDelete
       THEN LET updatedBooks == deleteBookFilter(loc[s].load.value, arg[s].bookId) IN
            /\ pc' = [pc EXCEPT ![s] = "del_save"]
            /\ net' = [net EXCEPT ![s] = PostRequest(dataToSave(updatedBooks, clock))]
            /\ loc' = [loc EXCEPT ![s] = [@ EXCEPT !.sent = updatedBooks]]
       ELSE /\ pc' = [pc EXCEPT ![s] = "idle"]
            /\ UNCHANGED <<net, loc>>
    /\ ui' = [ui EXCEPT ![s] = [@ EXCEPT !.answer = IF confirmDelete THEN "ok" ELSE "cancel"]]
    /\ UNCHANGED <<file, clock, runs, arg, listVars>>

DeleteSaved(s, o) ==
    /\ pc[s] = "del_save"
    /\ o \in Outcomes(s)
    /\ LET success == SaveResult(s, o) IN
        /\ loc' = [loc EXCEPT ![s] = [@ EXCEPT !.save = success]]
        /\ pc' = [pc EXCEPT ![s] = "idle"]
        /\ IF ~success.threw /\ success.value
           THEN ui' = [ui EXCEPT ![s] = [@ EXCEPT
                        !.alert = Quoted(loc[s].book.title,
                                         "\" has been deleted from your library."),
                        !.nav = "index.html"]]
           ELSE ui' = [ui EXCEPT ![s] = [@ EXCEPT
                        !.alert = Alert("Error deleting book. Please try again.")]]
    /\ net' = [net EXCEPT ![s] = IdleNet]
    /\ UNCHANGED <<file, clock, runs, arg, listVars>>

\* ------------------------------------------------------------ add page
\* the book object built without trimming the title
newBookUntrimmed(form, now) ==
    Book(now, form.title, Trim(form.author), ParseTags(form.tags), form.status, now)

\* the book object handleAddBook builds from the form
newBook(form, now) ==
    Book(now, Trim(form.title), Trim(form.author), ParseTags(form.tags), form.status, now)

\* existingBooks.push(book)
push(bks, book) == Append(bks, book)

\* the required-field check: !book.title is false
titleGiven(book) == book.title # <<>>

AddSubmit(s, form) ==
    /\ Len(StoredBooks(file)) < MaxBooks
    /\ StartHandler(s, [NoArg EXCEPT !.handler = "handleAddBook", !.form = form,
                                     !.now = clock, !.before = StoredBooks(file)])
    /\ LET book == newBook(form, clock) IN
        IF ~titleGiven(book)
        THEN /\ ui' = [ui EXCEPT ![s] = [NoUi EXCEPT
                        !.alert = Alert("Please enter a book title"), !.focus = "title"]]
             /\ UNCHANGED <<pc, net>>
        ELSE /\ ui' = [ui EXCEPT ![s] = NoUi]
             /\ pc' = [pc EXCEPT ![s] = "add_load"]
             /\ net' = [net EXCEPT ![s] = GetRequest]
    /\ UNCHANGED <<file, clock, listVars>>

AddLoaded(s, o) ==
    /\ pc[s] = "add_load"
    /\ o \in Outcomes(s)
    /\ LET r == loadBooks(o, net[s].rbody)
           existingBooks == push(r.value, newBook(arg[s].form, arg[s].now))
       IN
        IF r.threw
        THEN /\ Finish(s, Alert("Error adding book. Please try again."))
             /\ net' = [net EXCEPT ![s] = IdleNet]
             /\ loc' = [loc EXCEPT ![s] = [@ EXCEPT !.load = r]]
        ELSE /\ pc' = [pc EXCEPT ![s] = "add_save"]
             /\ net' = [net EXCEPT ![s] = PostRequest(dataToSave(existingBooks, clock))]
             /\ loc' = [loc EXCEPT ![s] = [@ EXCEPT !.load = r,
                                                     !.sent = existingBooks]]
             /\ UNCHANGED ui
    /\ UNCHANGED <<file, clock, runs, arg, listVars>>

AddSaved(s, o) ==
    /\ pc[s] = "add_save"
    /\ o \in Outcomes(s)
    /\ LET success == SaveResult(s, o) IN
        /\ loc' = [loc EXCEPT ![s] = [@ EXCEPT !.save = success]]
        /\ pc' = [pc EXCEPT ![s] = "idle"]
        /\ IF success.threw
           THEN ui' = [ui EXCEPT ![s] = [@ EXCEPT
                        !.alert = Alert("Error adding book. Please try again.")]]
           ELSE IF success.value
           THEN ui' = [ui EXCEPT ![s] = [@ EXCEPT
                        !.alert = Quoted(Trim(arg[s].form.title),
                                         "\" has been added to your library!"),
                        !.formReset = TRUE, !.nav = "index.html"]]
           ELSE ui' = [ui EXCEPT ![s] = [@ EXCEPT
                        !.alert = Alert("Error saving book. Please try again.")]]
    /\ net' = [net EXCEPT ![s] = IdleNet]
    /\ UNCHANGED <<file, clock, runs, arg, listVars>>

\* ------------------------------------------ save(load()) as one caller
RoundTripStart(s) ==
    /\ StartHandler(s, [NoArg EXCEPT !.handler = "roundTrip"])
    /\ ui' = [ui EXCEPT ![s] = NoUi]
    /\ pc' = [pc EXCEPT ![s] = "rt_load"]
    /\ net' = [net EXCEPT ![s] = GetRequest]
    /\ UNCHANGED <<file, clock, listVars>>

RoundTripLoaded(s, o) ==
    /\ pc[s] = "rt_load"
    /\ o \in Outcomes(s)
    /\ LET r == loadBooks(o, net[s].rbody) IN
        /\ pc' = [pc EXCEPT ![s] = "rt_save"]
        /\ net' = [net EXCEPT ![s] = PostRequest(dataToSave(r.value, clock))]
        /\ loc' = [loc EXCEPT ![s] = [@ EXCEPT !.load = r,
                                                !.sent = r.value]]
    /\ UNCHANGED <<file, clock, runs, arg, ui, listVars>>

RoundTripSaved(s, o) ==
    /\ pc[s] = "rt_save"
    /\ o \in Outcomes(s)
    /\ loc' = [loc EXCEPT ![s] = [@ EXCEPT !.save = SaveResult(s, o)]]
    /\ pc' = [pc EXCEPT ![s] = "idle"]
    /\ net' = [net EXCEPT ![s] = IdleNet]
    /\ UNCHANGED <<file, clock, runs, arg, ui, listVars>>

\* ---------------------------------------------------------- list page
\* the validity predicate of loadBooksForIndex: book.title && book.title.trim()
isValid(book) == book.title # <<>> /\ Trim(book.title) # <<>>

\* loadBooksForIndex after its await: allBooks.filter(isValid)
validBooks(allBooks) == SelectSeq(allBooks, isValid)

\* books.indexOf(book), 1-based; 0 stands for -1
indexOf(bks, book) ==
    IF \E i \in 1..Len(bks) : bks[i] = book
    THEN CHOOSE i \in 1..Len(bks) : bks[i] = book /\ \A j \in 1..(i - 1) : bks[j] # book
    ELSE 0

booksPerRow == 8

Min(a, b) == IF a < b THEN a ELSE b

\* the row count rounded down instead of up
CeilDivFloor(n, d) == n \div d

\* Math.ceil(n / booksPerRow)
CeilDiv(n, d) == (n + d - 1) \div d

\* one cell of the table, as updateBookshelf fills it
BookCell(bks, book) ==
    IF book.title # <<>>
    THEN [kind |-> "book", book |-> book, originalIndex |-> indexOf(bks, book), colSpan |-> 1]
    ELSE [kind |-> "error", book |-> book, originalIndex |-> 0, colSpan |-> 1]

PlaceholderCell == [kind |-> "empty", book |-> NoBook, originalIndex |-> 0, colSpan |-> booksPerRow]

\* updateBookshelf(booksToShow): the rows of the table; bks is the global array its
\* click handlers index
updateBookshelf(bks, booksToShow) ==
    IF Len(booksToShow) = 0
    THEN << <<PlaceholderCell>> >>
    ELSE LET totalRows == CeilDiv(Len(booksToShow), booksPerRow) IN
         [row \in 1..totalRows |->
            LET first == (row - 1) * booksPerRow
                cellsInThisRow == Min(booksPerRow, Len(booksToShow) - first)
            IN [col \in 1..cellsInThisRow |-> BookCell(bks, booksToShow[first + col])]]

\* updateDisplay(): the whole collection goes to the table
updateDisplay(bks) == updateBookshelf(bks, bks)

\* the filter predicate without toLowerCase on the query
searchMatchQueryAsTyped(book, q) ==
    LET searchTerm == q
        titleMatch == Includes(ToLowerCase(book.title), searchTerm)
        authorMatch == book.author # <<>> /\ Includes(ToLowerCase(book.author), searchTerm)
        tagMatch == \E t \in 1..Len(book.tags) :
                        Includes(ToLowerCase(book.tags[t]), searchTerm)
    IN titleMatch \/ authorMatch \/ tagMatch

\* the filter predicate of searchBooks
searchMatch(book, q) ==
    LET searchTerm == ToLowerCase(q)
        titleMatch == Includes(ToLowerCase(book.title), searchTerm)
        authorMatch == book.author # <<>> /\ Includes(ToLowerCase(book.author), searchTerm)
        tagMatch == \E t \in 1..Len(book.tags) :
                        Includes(ToLowerCase(book.tags[t]), searchTerm)
    IN titleMatch \/ authorMatch \/ tagMatch

\* searchBooks with the blank check made on the query as typed, not trimmed
searchBooksNoTrim(bks, q) ==
    IF q = <<>>
    THEN updateDisplay(bks)
    ELSE updateBookshelf(bks, SelectSeq(bks, LAMBDA book : searchMatch(book, q)))

\* searchBooks(query): what the table shows afterwards
searchBooks(bks, q) ==
    IF Trim(q) = <<>>
    THEN updateDisplay(bks)
    ELSE updateBookshelf(bks, SelectSeq(bks, LAMBDA book : searchMatch(book, q)))

\* no cell has been clicked: the page has not been left
OnListPage == lst.clicked = NoBook

\* DOMContentLoaded: loadBooksForIndex is called
ListInitStart ==
    /\ OnListPage
    /\ lst.ipc = "start"
    /\ lst' = [lst EXCEPT !.ipc = "loading"]
    /\ net' = [net EXCEPT !["Li"] = GetRequest]
    /\ UNCHANGED <<file, clock, runs, ctlVars, books, grid, query>>

\* DOMContentLoaded after its await, writing the filtered collection back
ListInitLoadedSavesValid(o) ==
    /\ OnListPage
    /\ lst.ipc = "loading"
    /\ o \in Outcomes("Li")
    /\ LET r == loadBooks(o, net["Li"].rbody)
           valid == IF r.threw THEN <<>> ELSE validBooks(r.value)
       IN
        /\ books' = valid
        /\ grid' = updateDisplay(valid)
        /\ net' = [net EXCEPT !["Li"] = PostRequest(dataToSave(valid, clock))]
    /\ lst' = [lst EXCEPT !.ipc = "ready"]
    /\ UNCHANGED <<file, clock, runs, ctlVars, query>>

\* DOMContentLoaded after its await: filter, updateDisplay, attach the search listener
ListInitLoaded(o) ==
    /\ OnListPage
    /\ lst.ipc = "loading"
    /\ o \in Outcomes("Li")
    /\ LET r == loadBooks(o, net["Li"].rbody)
           valid == IF r.threw THEN <<>> ELSE validBooks(r.value)
       IN
        /\ books' = valid
        /\ grid' = updateDisplay(valid)
    /\ lst' = [lst EXCEPT !.ipc = "ready"]
    /\ net' = [net EXCEPT !["Li"] = IdleNet]
    /\ UNCHANGED <<file, clock, runs, ctlVars, query>>

\* the user edits the search box
SearchInput(q) ==
    /\ OnListPage
    /\ lst.ipc = "ready"
    /\ query' = q
    /\ grid' = searchBooks(books, q)
    /\ UNCHANGED <<file, clock, runs, net, ctlVars, books, lst>>

\* window focus: remember the length, call loadBooksForIndex
FocusStart ==
    /\ OnListPage
    /\ lst.fpc = "idle"
    /\ lst' = [lst EXCEPT !.fpc = "loading", !.oldBooksLength = Len(books)]
    /\ net' = [net EXCEPT !["Lf"] = GetRequest]
    /\ UNCHANGED <<file, clock, runs, ctlVars, books, grid, query>>

\* the dirty check answering yes whatever the lengths are
lengthChangedAlways(bks, oldBooksLength) == TRUE

\* the focus handler's dirty check: books.length !== oldBooksLength
lengthChanged(bks, oldBooksLength) == Len(bks) # oldBooksLength

\* window focus after its await
FocusLoaded(o) ==
    /\ OnListPage
    /\ lst.fpc = "loading"
    /\ o \in Outcomes("Lf")
    /\ LET r == loadBooks(o, net["Lf"].rbody)
           valid == IF r.threw THEN <<>> ELSE validBooks(r.value)
       IN
        /\ books' = valid
        /\ grid' = IF lengthChanged(valid, lst.oldBooksLength)
                   THEN updateDisplay(valid) ELSE grid
    /\ lst' = [lst EXCEPT !.fpc = "idle"]
    /\ net' = [net EXCEPT !["Lf"] = IdleNet]
    /\ UNCHANGED <<file, clock, runs, ctlVars, query>>

\* showBookDetail(bookIndex): the id the detail page is opened with, if any
showBookDetail(bks, bookIndex) ==
    IF bookIndex < 1 \/ bookIndex > Len(bks) \/ bks[bookIndex].id = 0
    THEN NoParam
    ELSE Param(NumToStr(bks[bookIndex].id))

\* the user clicks the cell at (row, col); only book cells have an onclick
Click(row, col) ==
    /\ OnListPage
    /\ row \in 1..Len(grid)
    /\ col \in 1..Len(grid[row])
    /\ grid[row][col].kind = "book"
    /\ LET target == showBookDetail(books, grid[row][col].originalIndex) IN
        lst' = [lst EXCEPT !.clicked = grid[row][col].book,
                           !.nav = IF target.present THEN target.value ELSE <<>>]
    /\ UNCHANGED <<file, clock, runs, net, ctlVars, books, grid, query>>

\* ------------------------------------------------------------- inputs
\* ?id= values a detail page is opened with
BookIdParams == {Param(NumToStr(BookDune.id)), Param(NumToStr(BookEmma.id))}

\* the detail pages on which the status dropdown is used
StatusParams == {NoParam, Param(NumToStr(BookDune.id))}

NewStatuses == {"read"}

Forms ==
    { [title |-> t, author |-> <<"e">>, tags |-> <<"s", ",", " ">>,
       status |-> "want to read"] : t \in {<<" ", "N">>, <<" ">>} }

\* what the user types into the search box
Queries == {<<" ">>, <<"U">>}

NoList ==
    [ipc |-> "start", fpc |-> "idle", oldBooksLength |-> 0, clicked |-> NoBook,
     nav |-> <<>>]

InitOn(files) ==
    /\ file \in files
    /\ clock = FirstNow
    /\ runs = 0
    /\ net = [c \in Chans |-> IdleNet]
    /\ pc = [s \in Sessions |-> "idle"]
    /\ arg = [s \in Sessions |-> NoArg]
    /\ loc = [s \in Sessions |-> NoLoc]
    /\ ui = [s \in Sessions |-> NoUi]
    /\ books = <<>>
    /\ grid = <<>>
    /\ query = <<>>
    /\ lst = NoList

\* the detail and add pages of session s
Controller(s) ==
    \/ \E bookId \in StatusParams, newStatus \in NewStatuses :
            UpdateStatusStart(s, bookId, newStatus)
    \/ \E o \in {"reject", "nonjson", "response"} : UpdateStatusLoaded(s, o)
    \/ \E o \in {"reject", "response"} : UpdateStatusSaved(s, o)
    \/ \E bookId \in BookIdParams : DeleteStart(s, bookId)
    \/ \E o \in {"reject", "nonjson", "response"} : DeleteLoaded(s, o)
    \/ \E confirmDelete \in BOOLEAN : DeleteConfirm(s, confirmDelete)
    \/ \E o \in {"reject", "response"} : DeleteSaved(s, o)
    \/ \E form \in Forms : AddSubmit(s, form)
    \/ \E o \in {"reject", "nonjson", "response"} : AddLoaded(s, o)
    \/ \E o \in {"reject", "response"} : AddSaved(s, o)

Server(c) ==
    \/ ServerGet(c)
    \/ \E writeOk \in BOOLEAN : ServerPost(c, writeOk)

Next ==
    \/ Tick
    \/ \E s \in Sessions : Controller(s)
    \/ \E s \in Sessions : Server(s)

Init == InitOn(InitFilesPages)

Spec == Init /\ [][Next]_vars

\* save(load()) run by one caller against the server
NextRoundTrip ==
    \/ Tick
    \/ RoundTripStart("S1")
    \/ \E o \in {"reject", "nonjson", "response"} : RoundTripLoaded("S1", o)
    \/ \E o \in {"reject", "response"} : RoundTripSaved("S1", o)
    \/ Server("S1")

InitRoundTrip == InitOn(InitFiles)

SpecRoundTrip == InitRoundTrip /\ [][NextRoundTrip]_vars

\* the add page alone: one session creating books
NextCreate ==
    \/ Tick
    \/ \E form \in Forms : AddSubmit("S1", form)
    \/ \E o \in {"reject", "nonjson", "response"} : AddLoaded("S1", o)
    \/ \E o \in {"reject", "response"} : AddSaved("S1", o)
    \/ Server("S1")

InitCreate == InitOn(InitFiles)

SpecCreate == InitCreate /\ [][NextCreate]_vars

\* Another tab, seen from the list page.  The list page only reads the file, so a
\* handler of the other tab shows to it as the one write its save makes: these
\* actions run a whole handler (load, change, save) with every fetch succeeding.
\* how many handlers the other tab runs while the list page is open
MaxTabRuns == 1

OtherTabSave(bks) ==
    /\ runs < MaxTabRuns
    /\ runs' = runs + 1
    /\ file' = PostBooksRoute(file, dataToSave(bks, clock), TRUE).file
    /\ UNCHANGED <<clock, net, ctlVars, listVars>>

OtherTabDelete(bookId) ==
    LET loaded == loadBooks("response", GetBooksRoute(file)).value IN
    /\ find(loaded, bookId).found
    /\ OtherTabSave(deleteBookFilter(loaded, bookId))

OtherTabAdd(form) ==
    LET loaded == loadBooks("response", GetBooksRoute(file)).value IN
    /\ Len(loaded) < MaxBooks
    /\ titleGiven(newBook(form, clock))
    /\ OtherTabSave(push(loaded, newBook(form, clock)))

OtherTabUpdateStatus(bookId, newStatus) ==
    LET loaded == loadBooks("response", GetBooksRoute(file)).value
        step == updateStatusLoaded(loaded, bookId, newStatus)
    IN
    /\ step.save
    /\ OtherTabSave(step.books)

ListPage ==
    \/ ListInitStart
    \/ \E o \in {"reject", "nonjson", "response"} : ListInitLoaded(o)
    \/ \E q \in Queries : SearchInput(q)
    \/ FocusStart
    \/ \E o \in {"reject", "nonjson", "response"} : FocusLoaded(o)
    \/ \E row \in 1..Len(grid) : \E col \in 1..booksPerRow : Click(row, col)

OtherTab ==
    \/ \E bookId \in BookIdParams : OtherTabDelete(bookId)
    \/ \E form \in Forms : OtherTabAdd(form)
    \/ \E bookId \in StatusParams, newStatus \in NewStatuses :
            OtherTabUpdateStatus(bookId, newStatus)

NextList ==
    \/ Tick
    \/ ListPage
    \/ OtherTab
    \/ \E c \in {"Li", "Lf"} : ServerGet(c)

\* the files the list page starts from
InitFilesList ==
    { FileAbsent, FileJson(LibraryDoc(<<BookDune, BookEmma>>, 8)),
      FileJson(LibraryDoc(<<BookBlank, BookDune>>, 8)) }

InitList == InitOn(InitFilesList)

SpecList == InitList /\ [][NextList]_vars

\* ------------------------------------------------ searchBooks alone
\* how many books the in-memory collection holds
MaxShelf == 3

BookTags == Book(5, <<"f">>, <<"s">>, << <<"h">>, <<"U", "d">> >>, "read", 5)

RECURSIVE SeqsUpTo(_, _)
SeqsUpTo(S, n) ==
    IF n = 0 THEN {<<>>}
    ELSE LET shorter == SeqsUpTo(S, n - 1) IN
         shorter \cup {Append(q, x) : q \in shorter, x \in S}

\* in-memory collections of the list page: valid books in any order
Shelves == SeqsUpTo({BookDune, BookEmma, BookTags}, MaxShelf)

SearchQueries ==
    {<<>>, <<" ">>, <<"U">>, <<"H", "E">>, <<"s", "f">>, <<"d", " ">>, <<"D">>, <<"s">>}

\* the list page after its load, for every collection
InitSearch ==
    /\ books \in Shelves
    /\ file = FileJson(LibraryDoc(books, 8))
    /\ clock = FirstNow
    /\ runs = 0
    /\ net = [c \in Chans |-> IdleNet]
    /\ pc = [s \in Sessions |-> "idle"]
    /\ arg = [s \in Sessions |-> NoArg]
    /\ loc = [s \in Sessions |-> NoLoc]
    /\ ui = [s \in Sessions |-> NoUi]
    /\ grid = updateDisplay(books)
    /\ query = <<>>
    /\ lst = [NoList EXCEPT !.ipc = "ready"]

NextSearch == \E q \in SearchQueries : SearchInput(q)

SpecSearch == InitSearch /\ [][NextSearch]_vars

\* ------------------------------------------- updateBookshelf alone
\* how many books the stored collection of the grid check holds at most
MaxGrid == 17

\* the i-th book of a long shelf: ids 1, 2, ...; every third entry has a blank title
\* when the shelf is a mixed one
ShelfBook(i, mixed) ==
    Book(i, IF mixed /\ i % 3 = 0 THEN <<" ">> ELSE <<"D">>, <<>>, <<>>, "read", i)

\* the files the grid check starts from: 0 .. MaxGrid books
InitFilesGrid ==
    { FileJson(LibraryDoc([i \in 1..n |-> ShelfBook(i, mixed)], 8)) :
        n \in 0..MaxGrid, mixed \in BOOLEAN }

InitGrid == InitOn(InitFilesGrid)

\* the list page loading and rendering its collection
NextGrid ==
    \/ ListInitStart
    \/ ServerGet("Li")
    \/ \E o \in {"reject", "nonjson", "response"} : ListInitLoaded(o)
    \/ \E q \in {<<>>, <<" ">>} : SearchInput(q)

SpecGrid == InitGrid /\ [][NextGrid]_vars

\* ======================================================== properties
\* the ids of a book sequence
Ids(bks) == {bks[i].id : i \in 1..Len(bks)}

\* a book sequence without the books carrying id n, the others in order
RECURSIVE Without(_, _)
Without(bks, n) ==
    IF bks = <<>> THEN <<>>
    ELSE IF Head(bks).id = n THEN Without(Tail(bks), n)
    ELSE <<Head(bks)>> \o Without(Tail(bks), n)

UniqueIds(bks) == \A i, j \in 1..Len(bks) : i # j => bks[i].id # bks[j].id

\* the server handles the request of caller c in this step
Handled(c, method) ==
    net[c].stage = "sent" /\ net[c].method = method /\ net'[c].stage = "answered"

\* C1: save(load()) leaves the stored collection set-equal by id to the collection
\* stored before the save, whatever the load's outcome was.
C1_RoundTripKeepsIds ==
    [][(pc["S1"] = "rt_save" /\ Handled("S1", "POST"))
        => Ids(StoredBooks(file')) = Ids(StoredBooks(file))]_vars

\* C2: when the server accepts the save of a confirmed deleteBook for id X and
\* nothing was stored since that handler loaded, the stored sequence becomes the
\* previous one without the book of id X, the other books in their order.
C2_DeleteRemovesExactlyThatId ==
    [][\A s \in Sessions :
        (/\ pc[s] = "del_save"
         /\ Handled(s, "POST")
         /\ net'[s].status = 200
         /\ StoredBooks(file) = loc[s].load.value)
        => LET X == DecValue(arg[s].bookId.value)
               old == StoredBooks(file)
               new == StoredBooks(file')
           IN /\ new = Without(old, X)
              /\ X \in Ids(old)
              /\ X \notin Ids(new)
              /\ UniqueIds(old) => Len(new) = Len(old) - 1]_vars

C2_Witness ==
    \E s \in Sessions :
        /\ arg[s].handler = "deleteBook"
        /\ pc[s] = "idle"
        /\ ui[s].nav = "index.html"
        /\ loc[s].load.value = <<BookDune, BookEmma>>
        /\ arg[s].bookId.value = <<"8">>
        /\ StoredBooks(file) = <<BookDune>>

\* C3: a status update whose identifier matches no book of the loaded collection
\* ends there: no save is issued, the file is not written, the user reads
\* "Book not found".
C3_MissingIdNoSave ==
    [][\A s \in Sessions :
        (/\ pc[s] = "us_load"
         /\ pc'[s] # "us_load"
         /\ \A i \in 1..Len(loc'[s].load.value) :
                NumToStr(loc'[s].load.value[i].id) # arg[s].bookId.value)
        => /\ ui'[s].alert = <<"Book not found">>
           /\ pc'[s] = "idle"
           /\ net'[s].stage = "idle"
           /\ file' = file]_vars

C3_Witness ==
    \E s \in Sessions :
        /\ arg[s].handler = "updateStatus"
        /\ pc[s] = "idle"
        /\ loc[s].load.done
        /\ ~loc[s].load.caught
        /\ loc[s].load.value = <<BookEmma>>
        /\ ui[s].alert = <<"Book not found">>
        /\ StoredBooks(file) = <<BookEmma>>

\* session s starts a handler in this step
Starts(s) ==
    /\ runs' # runs
    /\ pc[s] = "idle"
    /\ \A t \in Sessions \ {s} :
            pc'[t] = pc[t] /\ arg'[t] = arg[t] /\ loc'[t] = loc[t] /\ ui'[t] = ui[t]

\* C4: submitting the create form with a title that is blank after trimming makes
\* no request, leaves the file as it is and reports the missing title.
C4_BlankTitleNoNetwork ==
    [][\A s \in Sessions :
        (/\ Starts(s)
         /\ arg'[s].handler = "handleAddBook"
         /\ \A i \in 1..Len(arg'[s].form.title) : arg'[s].form.title[i] = " ")
        => /\ net' = net
           /\ file' = file
           /\ pc'[s] = "idle"
           /\ ui'[s].alert = <<"Please enter a book title">>]_vars

C4_Witness ==
    \E s \in Sessions :
        /\ arg[s].handler = "handleAddBook"
        /\ arg[s].form.title = <<" ">>
        /\ pc[s] = "idle"
        /\ net[s].stage = "idle"
        /\ ui[s].alert = <<"Please enter a book title">>
        /\ StoredBooks(file) = <<BookDune, BookEmma>>

\* C5: a click on a rendered book cell opens the detail page of the id of the book
\* that cell displays.
C5_ClickOpensDisplayedBook ==
    lst.clicked # NoBook => lst.nav = NumToStr(lst.clicked.id)

\* C6: no two books of the stored collection have the same id.
C6_StoredIdsUnique == UniqueIds(StoredBooks(file))

\* C7: loadBooks never raises; it returns the empty sequence when the fetch
\* rejects, the body is not JSON or the body has no books field, and otherwise the
\* books of the file as the server read it, in their order.
C7_LoadFailsSoft ==
    [][\A s \in Sessions :
        /\ (Handled(s, "GET")
            => /\ net'[s].status = 200
               /\ net'[s].rbody.books = StoredBooks(file)
               /\ net'[s].rbody.hasBooks = ~(file.kind = "json" /\ ~file.doc.hasBooks))
        /\ (pc[s] \in {"us_load", "del_load", "add_load"} /\ pc'[s] # pc[s]
            => LET r == loc'[s].load IN
               /\ r.done
               /\ ~r.threw
               /\ net[s].stage # "answered" => r.caught
               /\ r.value = IF r.caught \/ ~net[s].rbody.hasBooks THEN <<>>
                            ELSE net[s].rbody.books)]_vars

C7_Witness ==
    \E s \in Sessions :
        /\ loc[s].load.done
        /\ loc[s].load.caught
        /\ loc[s].load.value = <<>>
        /\ StoredBooks(file) # <<>>
        /\ \E t \in Sessions :
            loc[t].load.done /\ ~loc[t].load.caught /\ Len(loc[t].load.value) = 2

\* C8: saveBooks never raises and returns true exactly when the server accepted the
\* POST and replaced the file.
C8_SaveTrueIffAccepted ==
    \A s \in Sessions :
        loc[s].save.done => ~loc[s].save.threw /\ (loc[s].save.value <=> loc[s].save.accepted)

\* C9: every document a client transmits, and so every document the server stores,
\* has totalBooks equal to the length of its books.
C9_TotalBooksIsLength ==
    /\ \A c \in Chans :
        net[c].method = "POST" => net[c].body.totalBooks = Len(net[c].body.books)
    /\ file.kind = "json" /\ file.doc.hasBooks => file.doc.totalBooks = Len(file.doc.books)

C9_Witness ==
    /\ file.kind = "json"
    /\ file.doc.lastUpdated >= FirstNow
    /\ Len(file.doc.books) = 3
    /\ file.doc.totalBooks = 3

\* q occurs in s at some position when letter case is ignored
OccursIgnoringCase(q, s) ==
    \E i \in 1..(Len(s) - Len(q) + 1) :
        \A k \in 1..Len(q) : LowerChar(s[i + k - 1]) = LowerChar(q[k])

MatchesQuery(book, q) ==
    \/ OccursIgnoringCase(q, book.title)
    \/ OccursIgnoringCase(q, book.author)
    \/ \E t \in 1..Len(book.tags) : OccursIgnoringCase(q, book.tags[t])

\* the books the table displays, row by row
RECURSIVE Shown(_)
Shown(rows) ==
    IF rows = <<>> THEN <<>>
    ELSE [i \in 1..Len(SelectSeq(Head(rows), LAMBDA cell : cell.kind # "empty")) |->
            SelectSeq(Head(rows), LAMBDA cell : cell.kind # "empty")[i].book]
         \o Shown(Tail(rows))

\* C10: after a search with a non-blank query the table shows exactly the books in
\* which the query occurs, ignoring case, in the title, the author or a tag, in the
\* order of the collection.
C10_SearchShowsMatches ==
    Trim(query) # <<>> =>
        Shown(grid) = SelectSeq(books, LAMBDA book : MatchesQuery(book, query))

C10_Witness ==
    /\ query = <<"s", "f">>
    /\ books = <<BookEmma, BookDune, BookTags>>
    /\ Shown(grid) = <<BookDune>>

\* C11: a search with an empty or whitespace-only query shows the whole collection,
\* every book once and in the collection's order.
C11_BlankQueryShowsAll ==
    (lst.ipc = "ready" /\ \A i \in 1..Len(query) : query[i] = " ")
        => /\ Shown(grid) = books
           /\ books # <<>> => \A r \in 1..Len(grid) : \A c \in 1..Len(grid[r]) :
                                grid[r][c].kind = "book"

C11_Witness ==
    /\ query = <<" ">>
    /\ books = <<BookEmma, BookDune, BookTags>>
    /\ Shown(grid) = books

\* C12: N books are rendered in ceil(N / 8) rows, every row but the last with 8
\* cells and the last with N mod 8 cells (8 when 8 divides N), book i (from 0) at
\* row i div 8, column i mod 8; no books are rendered as one row holding one
\* placeholder cell that spans the 8 columns.
C12_GridShape ==
    lst.ipc = "ready" =>
        LET N == Len(books) IN
        IF N = 0
        THEN /\ Len(grid) = 1
             /\ Len(grid[1]) = 1
             /\ grid[1][1].kind = "empty"
             /\ grid[1][1].colSpan = 8
        ELSE /\ Len(grid) = (N \div 8) + (IF N % 8 = 0 THEN 0 ELSE 1)
             /\ \A r \in 1..(Len(grid) - 1) : Len(grid[r]) = 8
             /\ Len(grid[Len(grid)]) = (IF N % 8 = 0 THEN 8 ELSE N % 8)
             /\ \A i \in 0..(N - 1) :
                    /\ grid[(i \div 8) + 1][(i % 8) + 1].book = books[i + 1]
                    /\ grid[(i \div 8) + 1][(i % 8) + 1].colSpan = 1

C12_Witness ==
    /\ lst.ipc = "ready"
    /\ Len(books) = 17
    /\ Len(grid) = 3
    /\ Len(grid[2]) = 8
    /\ Len(grid[3]) = 1
    /\ grid[3][1].book.id = 17

\* C13: a window-focus event fetches the collection again; when the fetch is over
\* the table is rendered anew from the fetched valid books if their number differs
\* from the number held when the event fired, and is left as it was if not.
C13_FocusRendersIffCountChanged ==
    [][/\ (lst.fpc = "idle" /\ lst'.fpc = "loading")
            => /\ net'["Lf"].stage = "sent"
               /\ net'["Lf"].method = "GET"
               /\ lst'.oldBooksLength = Len(books)
       /\ (lst.fpc = "loading" /\ lst'.fpc = "idle")
            => IF Len(books') # lst.oldBooksLength
               THEN Shown(grid') = books'
               ELSE grid' = grid]_vars

C13_Witness ==
    /\ lst.fpc = "idle"
    /\ lst.oldBooksLength = 2
    /\ Len(books) = 2
    /\ query = <<>>
    /\ Len(Shown(grid)) = 2
    /\ Shown(grid) # books

\* C14: GET /books answers 200 whatever the file is: with the stored document when
\* the file is readable JSON, with { books: [] } when the file is absent or does
\* not parse; the file is not touched.
C14_GetAlways200 ==
    [][\A c \in Chans :
        Handled(c, "GET")
        => /\ net'[c].status = 200
           /\ file' = file
           /\ file.kind = "json" => net'[c].rbody = file.doc
           /\ file.kind \in {"absent", "corrupt"}
                => /\ net'[c].rbody.hasBooks
                   /\ net'[c].rbody.books = <<>>]_vars

C14_Witness ==
    \E c \in Chans :
        /\ file.kind = "absent"
        /\ net[c].stage = "answered"
        /\ net[c].method = "GET"
        /\ net[c].status = 200
        /\ net[c].rbody.hasBooks
        /\ net[c].rbody.books = <<>>

\* two sessions deleted different books from the same loaded collection and both
\* were told the delete succeeded: the file is what one of them sent, and it holds
\* the book the other one deleted
LoserReappears ==
    \A s, t \in Sessions :
        (/\ s # t
         /\ arg[s].handler = "deleteBook" /\ arg[t].handler = "deleteBook"
         /\ arg[s].bookId # arg[t].bookId
         /\ pc[s] = "idle" /\ pc[t] = "idle"
         /\ loc[s].save.done /\ loc[s].save.value /\ ui[s].nav = "index.html"
         /\ loc[t].save.done /\ loc[t].save.value /\ ui[t].nav = "index.html"
         /\ loc[s].load.value = loc[t].load.value
         /\ UniqueIds(loc[s].load.value))
        => /\ StoredBooks(file) \in {loc[s].sent, loc[t].sent}
           /\ StoredBooks(file) = loc[t].sent
                => /\ loc[s].book.id \in Ids(StoredBooks(file))
                   /\ loc[t].book.id \notin Ids(StoredBooks(file))
                   /\ Len(StoredBooks(file)) = Len(loc[s].load.value) - 1

\* C15: a save the server accepts replaces the stored document by the transmitted
\* one, nothing merged; so when two sessions delete different books and both load
\* before either saves, the later save brings back the book the earlier one
\* deleted, although both sessions were told the delete succeeded.
C15_LastWriterWins ==
    [][/\ \A s \in Sessions :
            (Handled(s, "POST") /\ net'[s].status = 200) => file' = FileJson(net[s].body)
       /\ LoserReappears']_vars

C15_Witness ==
    /\ arg["S1"].handler = "deleteBook" /\ arg["S2"].handler = "deleteBook"
    /\ arg["S1"].bookId.value = <<"7">> /\ arg["S2"].bookId.value = <<"8">>
    /\ pc["S1"] = "idle" /\ pc["S2"] = "idle"
    /\ loc["S1"].save.value /\ loc["S2"].save.value
    /\ ui["S1"].nav = "index.html" /\ ui["S2"].nav = "index.html"
    /\ loc["S1"].load.value = <<BookDune, BookEmma>>
    /\ loc["S2"].load.value = <<BookDune, BookEmma>>
    /\ StoredBooks(file) = <<BookDune>>

\* C16: the save of a status update for id X to status s stores the collection the
\* action loaded with the status of book X set to s and nothing else changed;
\* success is reported only when saveBooks returned true; when it returned false an
\* error is reported and the server has not stored the action's document.
C16_StatusUpdateFrame ==
    [][\A s \in Sessions :
        /\ (pc[s] = "us_save" /\ Handled(s, "POST") /\ net'[s].status = 200)
            => LET loaded == loc[s].load.value
                   stored == StoredBooks(file')
               IN /\ Len(stored) = Len(loaded)
                  /\ \E i \in 1..Len(loaded) : NumToStr(loaded[i].id) = arg[s].bookId.value
                  /\ \A i \in 1..Len(loaded) :
                        IF NumToStr(loaded[i].id) = arg[s].bookId.value
                        THEN stored[i] = [loaded[i] EXCEPT !.status = arg[s].newStatus]
                        ELSE stored[i] = loaded[i]
        /\ (pc[s] = "us_save" /\ pc'[s] = "idle")
            => /\ ui'[s].alert = <<"Status updated to: ", arg[s].newStatus>>
                    => loc'[s].save.value
               /\ ~loc'[s].save.value
                    => /\ ui'[s].alert = <<"Error updating status. Please try again.">>
                       /\ ~loc'[s].save.accepted]_vars

\* session s has a POST under way or answered
Posting(s) == net[s].stage # "idle" /\ net[s].method = "POST"

\* C17: deleteBook sends a save only after the user answered the confirm dialog
\* with OK; a cancel, or an identifier no loaded book has, ends the handler with no
\* request sent, the file as it was and the page still open; the page goes to the
\* list view only when saveBooks returned true.
C17_DeleteNeedsConfirmation ==
    [][\A s \in Sessions :
        arg'[s].handler = "deleteBook"
        => /\ (~Posting(s) /\ Posting(s)')
                => pc[s] = "del_confirm" /\ ui'[s].answer = "ok"
           /\ (pc[s] = "del_confirm" /\ pc'[s] # "del_confirm" /\ ui'[s].answer # "ok")
                => /\ pc'[s] = "idle"
                   /\ net'[s].stage = "idle"
                   /\ file' = file
                   /\ ui'[s].nav = ""
           /\ (pc[s] = "del_load" /\ pc'[s] # "del_load"
                /\ \A i \in 1..Len(loc'[s].load.value) :
                        NumToStr(loc'[s].load.value[i].id) # arg[s].bookId.value)
                => /\ pc'[s] = "idle"
                   /\ net'[s].stage = "idle"
                   /\ file' = file
                   /\ ui'[s].nav = ""
           /\ (ui[s].nav = "" /\ ui'[s].nav # "")
                => /\ ui'[s].nav = "index.html"
                   /\ pc[s] = "del_save"
                   /\ loc'[s].save.value
                   /\ ui'[s].answer = "ok"]_vars

C17_Witness ==
    \E s \in Sessions :
        /\ arg[s].handler = "deleteBook"
        /\ pc[s] = "idle"
        /\ ui[s].answer = "cancel"
        /\ ui[s].nav = ""
        /\ ~loc[s].save.done
        /\ loc[s].load.value = <<BookDune, BookEmma>>
        /\ StoredBooks(file) = <<BookDune, BookEmma>>

\* C18: the collection deleteBook saves is computed from the collection stored when
\* the user confirms: the document sent on confirmation is the stored collection
\* of that moment without the book of the page's id.
C18_DeleteReloadsAfterConfirm ==
    [][\A s \in Sessions :
        (pc[s] = "del_confirm" /\ pc'[s] = "del_save")
        => net'[s].body.books =
            Without(StoredBooks(file), DecValue(arg[s].bookId.value))]_vars

\* C19: when the save of a create returns false the server has not stored the
\* action's document, an error is shown, the form keeps its values and the page
\* stays; the form is reset and the page goes to the list view only when the save
\* returned true.
C19_CreateSaveFailure ==
    [][\A s \in Sessions :
        (pc[s] = "add_save" /\ pc'[s] = "idle")
        => /\ ~loc'[s].save.value
                => /\ ~loc'[s].save.accepted
                   /\ ui'[s].alert \in {<<"Error saving book. Please try again.">>,
                                        <<"Error adding book. Please try again.">>}
                   /\ ~ui'[s].formReset
                   /\ ui'[s].nav = ""
           /\ (ui'[s].formReset \/ ui'[s].nav # "")
                => /\ loc'[s].save.value
                   /\ ui'[s].formReset
                   /\ ui'[s].nav = "index.html"]_vars

\* C20: in a single session, when the save of a create returned true the stored
\* collection is the collection stored when the form was submitted with the new
\* book appended, whatever the outcome of the action's load was.
C20_CreateKeepsBooks ==
    (/\ arg["S1"].handler = "handleAddBook"
     /\ pc["S1"] = "idle"
     /\ loc["S1"].save.done
     /\ loc["S1"].save.value)
    => LET stored == StoredBooks(file)
           before == arg["S1"].before
       IN /\ Len(stored) = Len(before) + 1
          /\ \A i \in 1..Len(before) : stored[i] = before[i]
          /\ stored[Len(stored)].id = arg["S1"].now
          /\ stored[Len(stored)].title = Trim(arg["S1"].form.title)

\* C21: once the list page has loaded, the table shows exactly the books of the
\* in-memory collection that match the text in the search box, in the collection's
\* order; all of them when the text is blank.
C21_GridMatchesQuery ==
    (lst.ipc = "ready" /\ OnListPage)
    => Shown(grid) = IF \A i \in 1..Len(query) : query[i] = " "
                     THEN books
                     ELSE SelectSeq(books, LAMBDA book : MatchesQuery(book, query))

\* a step of the list page: its state or one of its two fetches changes
ListPageStep ==
    \/ listVars' # listVars
    \/ \E c \in {"Li", "Lf"} : net'[c] # net[c]

\* C22: no step of the list page (load, validity filter, search, focus, click)
\* sends a save or changes the stored document; entries the validity filter hides
\* stay in the file.
C22_ListPageReadOnly ==
    [][ListPageStep
        => /\ file' = file
           /\ \A c \in {"Li", "Lf"} : net'[c].method # "POST"]_vars

C22_Witness ==
    /\ file = FileJson(LibraryDoc(<<BookBlank, BookDune>>, 8))
    /\ books = <<BookDune>>
    /\ query = <<"U">>
    /\ lst.fpc = "idle"
    /\ lst.oldBooksLength = 1
    /\ lst.clicked = BookDune

====
